---- MODULE Spec2Model ----
\* Model of src/src/models/ae.py: the AutoEncoder LightningModule.
\* Tensors are batches (sequences) of rows (sequences) of small integers;
\* floating-point losses are fixed-point numbers with Scale units per 1.0.
EXTENDS Integers, Sequences, FiniteSets, TLC

VARIABLES recon_loss, logger, encoder_conv, encoder_latent, decoder_latent,
          decoder_conv, pc, frame, results, ret, logged, trace, sampled

vars == <<recon_loss, logger, encoder_conv, encoder_latent, decoder_latent,
          decoder_conv, pc, frame, results, ret, logged, trace, sampled>>

hparams == <<recon_loss, logger, encoder_conv, encoder_latent, decoder_latent,
             decoder_conv>>

\* ---------------------------------------------------------------- bounds
MaxBatch == 2
Dim == 2
MaxBatchIdx == 1

\* ------------------------------------------------------------- constants
Scale == 1000
num == 25

\* ---------------------------------------------------------------- values
Val == -1..1
Pixel == 0..1
Stages == {"train", "val", "test"}
ReconLosses == {"mse", "bce", "l1"}

Relu == [v \in Val |-> IF v > 0 THEN v ELSE 0]
Shift == [v \in Val |-> ((v + 2) % 3) - 1]
Layers == {Relu, Shift}

Inputs == UNION {[1..n -> [1..Dim -> Pixel]] : n \in 1..MaxBatch}
Batches == {[x |-> x, y |-> [i \in DOMAIN x |-> 0]] : x \in Inputs}
NoBatch == [x |-> <<>>, y |-> <<>>]

EmptyDict == [k \in {} |-> 0]
NoLoss == [val |-> 0, grad_fn |-> FALSE]
NoRet == [kind |-> "none", loss |-> NoLoss, log |-> EmptyDict]
NoLogged == [called |-> FALSE, dict |-> EmptyDict, prog_bar |-> FALSE,
             on_step |-> FALSE, on_epoch |-> FALSE]
NoResults == EmptyDict

\* ------------------------------------------------------------ tensor ops
RECURSIVE SumSeq(_)
SumSeq(s) == IF s = <<>> THEN 0 ELSE Head(s) + SumSeq(Tail(s))

size0(t) == Len(t)
numel(t) == SumSeq([i \in DOMAIN t |-> Len(t[i])])
Apply(net, t) == [i \in DOMAIN t |-> [j \in DOMAIN t[i] |-> net[t[i][j]]]]
Take(s, n) == IF Len(s) > n THEN SubSeq(s, 1, n) ELSE s
Abs(v) == IF v < 0 THEN 0 - v ELSE v
Max0(v) == IF v > 0 THEN v ELSE 0

Event(op, key, arg, out) == [op |-> op, key |-> key, arg |-> arg, out |-> out]
Mark(op) == Event(op, "", <<>>, <<>>)

\* log(1 + exp(-a)) in units of 1/Scale
Softplus(a) == IF a = 0 THEN 693 ELSE IF a = 1 THEN 313 ELSE 127
\* 1 / (1 + exp(-v)) in units of 1/Scale
SigmoidOf(v) == IF v < 0 THEN 269 ELSE IF v = 0 THEN 500 ELSE 731
sigmoid(t) == [i \in DOMAIN t |-> [j \in DOMAIN t[i] |-> SigmoidOf(t[i][j])]]

Reduce(elems, reduction, n) ==
    IF reduction = "sum" THEN SumSeq([i \in DOMAIN elems |-> SumSeq(elems[i])])
    ELSE SumSeq([i \in DOMAIN elems |-> SumSeq(elems[i])]) \div n

mse_loss(input, target, reduction) ==
    Reduce([i \in DOMAIN input |-> [j \in DOMAIN input[i] |->
              Scale * (input[i][j] - target[i][j]) * (input[i][j] - target[i][j])]],
           reduction, numel(input))

binary_cross_entropy_with_logits(input, target, reduction) ==
    Reduce([i \in DOMAIN input |-> [j \in DOMAIN input[i] |->
              Scale * Max0(input[i][j]) - Scale * input[i][j] * target[i][j]
              + Softplus(Abs(input[i][j]))]],
           reduction, numel(input))

detach(v) == [val |-> v.val, grad_fn |-> FALSE]

\* ------------------------------------------------------------ the module
encode_latent(feat) ==
    LET z == Apply(encoder_latent, feat)
    IN  [out |-> z, calls |-> <<Event("encoder_latent", "", feat, z)>>]

decode_latent(z) ==
    LET h == Apply(decoder_latent, z)
    IN  [out |-> h, calls |-> <<Event("decoder_latent", "", z, h)>>]

encode(input) ==
    LET feat == Apply(encoder_conv, input)
        z == encode_latent(feat)
    IN  [out |-> z.out,
         calls |-> <<Event("encoder_conv", "", input, feat)>> \o z.calls]

decode_swapped(z) ==
    LET img == Apply(decoder_conv, z)
        h == Apply(decoder_latent, img)
    IN  [out |-> h,
         calls |-> <<Event("decoder_conv", "", z, img),
                     Event("decoder_latent", "", img, h)>>]

decode(z) ==
    LET h == decode_latent(z)
        img == Apply(decoder_conv, h.out)
    IN  [out |-> img,
         calls |-> h.calls \o <<Event("decoder_conv", "", h.out, img)>>]

forward(input) ==
    LET z == encode(input)
        d == decode(z.out)
    IN  [results |-> [recon |-> d.out], calls |-> z.calls \o d.calls]

compute_recontruct_loss_mean(inputs, res) ==
    IF recon_loss = "mse"
    THEN [raised |-> FALSE,
          val |-> mse_loss(res.recon, inputs, "mean") \div size0(inputs),
          grad_fn |-> TRUE]
    ELSE IF recon_loss = "bce"
    THEN [raised |-> FALSE,
          val |-> binary_cross_entropy_with_logits(res.recon, inputs, "mean")
                    \div size0(inputs),
          grad_fn |-> TRUE]
    ELSE [raised |-> TRUE, val |-> 0, grad_fn |-> FALSE]

compute_recontruct_loss(inputs, res) ==
    IF recon_loss = "mse"
    THEN [raised |-> FALSE,
          val |-> mse_loss(res.recon, inputs, "sum") \div size0(inputs),
          grad_fn |-> TRUE]
    ELSE IF recon_loss = "bce"
    THEN [raised |-> FALSE,
          val |-> binary_cross_entropy_with_logits(res.recon, inputs, "sum")
                    \div size0(inputs),
          grad_fn |-> TRUE]
    ELSE [raised |-> TRUE, val |-> 0, grad_fn |-> FALSE]

compute_loss(inputs, res) ==
    LET r == compute_recontruct_loss(inputs, res)
        v == [val |-> r.val, grad_fn |-> r.grad_fn]
    IN  [raised |-> r.raised, dict |-> [loss |-> v, recon_loss |-> v]]

sample_images(batch, n, stage) ==
    LET inputs == Take(batch.x, n)
        f == forward(inputs)
        recons == IF recon_loss = "bce" THEN sigmoid(f.results.recon)
                  ELSE f.results.recon
    IN  <<Mark("sample_images")>> \o f.calls
        \o <<Event("log_image", "input_" \o stage, inputs, <<>>),
             Event("log_image", "recon_" \o stage, recons, <<>>)>>

LogKey_suffix(stage, k) == k \o "_" \o stage

LogKey(stage, k) == stage \o "_" \o k

SampleCond_any_stage(batch_idx, stage) == batch_idx = 0 /\ logger

SampleCond(batch_idx, stage) == batch_idx = 0 /\ logger /\ stage # "test"

step(batch, batch_idx, stage) ==
    LET x == batch.x
        f == forward(x)
        l == compute_loss(x, f.results)
        loss_dict == l.dict
        log == [key \in {LogKey(stage, k) : k \in DOMAIN loss_dict} |->
                  detach(loss_dict[CHOOSE k \in DOMAIN loss_dict :
                                      LogKey(stage, k) = key])]
        sample == SampleCond(batch_idx, stage)
    IN  IF l.raised
        THEN [raised |-> TRUE, results |-> f.results, loss |-> NoLoss,
              log |-> EmptyDict, sample |-> FALSE,
              trace |-> <<Mark("forward")>> \o f.calls]
        ELSE [raised |-> FALSE, results |-> f.results, loss |-> loss_dict["loss"],
              log |-> log, sample |-> sample,
              trace |-> <<Mark("forward")>> \o f.calls \o <<Mark("compute_loss")>>
                        \o (IF sample THEN sample_images(batch, num, stage)
                            ELSE <<>>)]

\* --------------------------------------------------------------- actions
Init ==
    /\ recon_loss \in ReconLosses
    /\ logger \in BOOLEAN
    /\ encoder_conv \in Layers
    /\ encoder_latent \in Layers
    /\ decoder_latent \in Layers
    /\ decoder_conv \in Layers
    /\ pc = "idle"
    /\ frame = [hook |-> "none", batch |-> NoBatch, batch_idx |-> 0, stage |-> "none"]
    /\ results = NoResults
    /\ ret = NoRet
    /\ logged = NoLogged
    /\ trace = <<>>
    /\ sampled = {}

Sampled(s, stage, batch_idx) ==
    IF s.sample THEN sampled \cup {[stage |-> stage, batch_idx |-> batch_idx]}
    ELSE sampled

Forward ==
    \E x \in Inputs :
        LET f == forward(x) IN
        /\ pc = "idle"
        /\ frame' = [hook |-> "forward", batch |-> [x |-> x, y |-> <<>>],
                     batch_idx |-> 0, stage |-> "none"]
        /\ results' = f.results
        /\ trace' = <<Mark("forward")>> \o f.calls
        /\ ret' = [kind |-> "results", loss |-> NoLoss, log |-> EmptyDict]
        /\ pc' = "returned"
        /\ UNCHANGED <<hparams, logged, sampled>>

Step ==
    \E batch \in Batches, batch_idx \in 0..MaxBatchIdx, stage \in Stages :
        LET s == step(batch, batch_idx, stage) IN
        /\ pc = "idle"
        /\ frame' = [hook |-> "step", batch |-> batch, batch_idx |-> batch_idx,
                     stage |-> stage]
        /\ results' = s.results
        /\ sampled' = Sampled(s, stage, batch_idx)
        /\ IF s.raised
           THEN /\ trace' = s.trace
                /\ ret' = NoRet
                /\ pc' = "raised"
           ELSE /\ trace' = s.trace \o <<Mark("return")>>
                /\ ret' = [kind |-> "pair", loss |-> s.loss, log |-> s.log]
                /\ pc' = "returned"
        /\ UNCHANGED <<hparams, logged>>

training_step_trace_log_first(s) ==
    <<Mark("log_dict")>> \o s.trace \o <<Mark("return")>>

training_step_trace(s) == s.trace \o <<Mark("log_dict"), Mark("return")>>

TrainingStep ==
    \E batch \in Batches, batch_idx \in 0..MaxBatchIdx :
        LET s == step(batch, batch_idx, "train") IN
        /\ pc = "idle"
        /\ frame' = [hook |-> "training_step", batch |-> batch,
                     batch_idx |-> batch_idx, stage |-> "train"]
        /\ results' = s.results
        /\ sampled' = Sampled(s, "train", batch_idx)
        /\ IF s.raised
           THEN /\ trace' = s.trace
                /\ ret' = NoRet
                /\ pc' = "raised"
                /\ UNCHANGED logged
           ELSE /\ trace' = training_step_trace(s)
                /\ logged' = [called |-> TRUE, dict |-> s.log, prog_bar |-> TRUE,
                              on_step |-> TRUE, on_epoch |-> FALSE]
                /\ ret' = [kind |-> "loss", loss |-> s.loss, log |-> s.log]
                /\ pc' = "returned"
        /\ UNCHANGED hparams

ValidationStep ==
    \E batch \in Batches, batch_idx \in 0..MaxBatchIdx :
        LET s == step(batch, batch_idx, "val") IN
        /\ pc = "idle"
        /\ frame' = [hook |-> "validation_step", batch |-> batch,
                     batch_idx |-> batch_idx, stage |-> "val"]
        /\ results' = s.results
        /\ sampled' = Sampled(s, "val", batch_idx)
        /\ IF s.raised
           THEN /\ trace' = s.trace
                /\ ret' = NoRet
                /\ pc' = "raised"
                /\ UNCHANGED logged
           ELSE /\ trace' = s.trace \o <<Mark("log_dict"), Mark("return")>>
                /\ logged' = [called |-> TRUE, dict |-> s.log, prog_bar |-> TRUE,
                              on_step |-> FALSE, on_epoch |-> TRUE]
                /\ ret' = [kind |-> "loss", loss |-> s.loss, log |-> s.log]
                /\ pc' = "returned"
        /\ UNCHANGED hparams

TestStep ==
    \E batch \in Batches, batch_idx \in 0..MaxBatchIdx :
        LET s == step(batch, batch_idx, "test") IN
        /\ pc = "idle"
        /\ frame' = [hook |-> "test_step", batch |-> batch,
                     batch_idx |-> batch_idx, stage |-> "test"]
        /\ results' = s.results
        /\ sampled' = Sampled(s, "test", batch_idx)
        /\ IF s.raised
           THEN /\ trace' = s.trace
                /\ ret' = NoRet
                /\ pc' = "raised"
           ELSE /\ trace' = s.trace \o <<Mark("return")>>
                /\ ret' = [kind |-> "logs", loss |-> s.loss, log |-> s.log]
                /\ pc' = "returned"
        /\ UNCHANGED <<hparams, logged>>

\* The training loop runs the backward pass on the loss training_step returned.
Backward ==
    /\ pc = "returned"
    /\ frame.hook = "training_step"
    /\ ret.loss.grad_fn
    /\ trace' = Append(trace, Mark("backward"))
    /\ pc' = "backward_done"
    /\ UNCHANGED <<hparams, frame, results, ret, logged, sampled>>

\* The caller consumes the returned value and moves on to the next batch.
NextBatch ==
    /\ \/ pc = "returned" /\ frame.hook # "training_step"
       \/ pc = "backward_done"
    /\ pc' = "idle"
    /\ frame' = [hook |-> "none", batch |-> NoBatch, batch_idx |-> 0, stage |-> "none"]
    /\ results' = NoResults
    /\ ret' = NoRet
    /\ logged' = NoLogged
    /\ trace' = <<>>
    /\ UNCHANGED <<hparams, sampled>>

Next ==
    \/ Forward
    \/ Step
    \/ TrainingStep
    \/ ValidationStep
    \/ TestStep
    \/ Backward
    \/ NextBatch

Spec == Init /\ [][Next]_vars

\* ------------------------------------------------------------ properties
Idx(op) == {i \in DOMAIN trace : trace[i].op = op}
Completed == pc \in {"returned", "backward_done"}
StepHooks == {"step", "training_step", "validation_step", "test_step"}
InStep == frame.hook \in StepHooks
Cells(t) == {<<i, j>> : i \in DOMAIN t, j \in 1..Dim}

RECURSIVE SumCells(_, _)
SumCells(f, S) ==
    IF S = {} THEN 0
    ELSE LET c == CHOOSE c \in S : TRUE IN f[c] + SumCells(f, S \ {c})

\* C1 (as stated): in a training step, log_dict happens only after the loss
\* has been handed back to the framework (the hook's return), never before it.
C1_LogAfterReturn ==
    frame.hook = "training_step" =>
        \A i \in Idx("log_dict") : \E r \in Idx("return") : r < i

\* C1 (amended): a completed training step runs forward, then the loss
\* computation, then log_dict exactly once, and only then returns the loss;
\* the backward pass, when it has run, comes after all of them.
C1_LogBeforeReturn ==
    (frame.hook = "training_step" /\ Completed) =>
        /\ Cardinality(Idx("log_dict")) = 1
        /\ Cardinality(Idx("return")) = 1
        /\ \E f \in Idx("forward"), c \in Idx("compute_loss"),
              l \in Idx("log_dict"), r \in Idx("return") :
              /\ f < c /\ c < l /\ l < r
              /\ \A b \in Idx("backward") : r < b
        /\ logged.called /\ logged.dict = ret.log
        /\ (pc = "backward_done" => Cardinality(Idx("backward")) = 1)

C1_Witness ==
    /\ frame.hook = "training_step"
    /\ pc = "backward_done"
    /\ Idx("log_dict") # {}
    /\ Idx("backward") # {}

\* C2: forward(input) invokes encoder_conv, encoder_latent, decoder_latent and
\* decoder_conv exactly once each, in that order, each on the previous one's
\* output, and returns a dict whose only key is 'recon', holding the output of
\* decoder_conv.
C2_ForwardComposition ==
    (frame.hook = "forward" /\ pc = "returned") =>
        /\ Len(trace) = 5
        /\ trace[2].op = "encoder_conv" /\ trace[2].arg = frame.batch.x
        /\ trace[2].out = Apply(encoder_conv, trace[2].arg)
        /\ trace[3].op = "encoder_latent" /\ trace[3].arg = trace[2].out
        /\ trace[3].out = Apply(encoder_latent, trace[3].arg)
        /\ trace[4].op = "decoder_latent" /\ trace[4].arg = trace[3].out
        /\ trace[4].out = Apply(decoder_latent, trace[4].arg)
        /\ trace[5].op = "decoder_conv" /\ trace[5].arg = trace[4].out
        /\ trace[5].out = Apply(decoder_conv, trace[5].arg)
        /\ DOMAIN results = {"recon"}
        /\ results["recon"] = trace[5].out

C2_Witness ==
    /\ frame.hook = "forward" /\ pc = "returned"
    /\ Len(frame.batch.x) = MaxBatch
    /\ decoder_latent # decoder_conv
    /\ encoder_conv # encoder_latent
    /\ results["recon"] # frame.batch.x
    /\ results["recon"] # Apply(decoder_latent, Apply(decoder_conv, trace[3].out))

\* C3: the loss a step returns is, for recon_loss = 'mse', the sum over all
\* elements of the squared error and, for 'bce', the sum over all elements of
\* the binary cross-entropy on logits, in both cases divided by the batch
\* size inputs.size(0); it is determined by recon_loss, the inputs and the
\* reconstruction alone.
C3_ReconLossSelected ==
    (InStep /\ Completed) =>
        LET x == frame.batch.x
            r == results["recon"]
            sq == [c \in Cells(x) |->
                     Scale * (r[c[1]][c[2]] - x[c[1]][c[2]])
                           * (r[c[1]][c[2]] - x[c[1]][c[2]])]
            ce == [c \in Cells(x) |->
                     Scale * Max0(r[c[1]][c[2]])
                     - Scale * r[c[1]][c[2]] * x[c[1]][c[2]]
                     + Softplus(Abs(r[c[1]][c[2]]))]
        IN  /\ recon_loss \in {"mse", "bce"}
            /\ recon_loss = "mse" =>
                  ret.loss.val = SumCells(sq, Cells(x)) \div Len(x)
            /\ recon_loss = "bce" =>
                  ret.loss.val = SumCells(ce, Cells(x)) \div Len(x)

C3_Witness ==
    /\ frame.hook = "step" /\ pc = "returned"
    /\ recon_loss = "bce"
    /\ Len(frame.batch.x) = MaxBatch
    /\ ret.loss.val > Scale
    /\ \E i \in DOMAIN results["recon"], j \in 1..Dim : results["recon"][i][j] < 0

\* C4: within step, sample_images is invoked exactly when batch_idx = 0, a
\* logger is attached and stage is not 'test'; over any sequence of steps no
\* image is sampled in the test stage or for batch_idx > 0; sampling comes
\* after the loss computation and leaves the returned (loss, log) pair as it
\* is for the same batch and stage without sampling.
C4_SamplingGuard ==
    /\ \A r \in sampled : r.stage # "test" /\ r.batch_idx = 0
    /\ (InStep /\ pc = "raised") => Idx("sample_images") = {}
    /\ (InStep /\ Completed) =>
          /\ (Idx("sample_images") # {}) <=>
                (frame.batch_idx = 0 /\ logger /\ frame.stage # "test")
          /\ Cardinality(Idx("sample_images")) <= 1
          /\ (Idx("log_image") # {}) => (Idx("sample_images") # {})
          /\ \A i \in Idx("sample_images") :
                /\ \E c \in Idx("compute_loss") : c < i
                /\ [stage |-> frame.stage, batch_idx |-> frame.batch_idx] \in sampled
          /\ \A i \in Idx("log_image") :
                trace[i].key \in {"input_" \o frame.stage, "recon_" \o frame.stage}
          /\ LET quiet == step(frame.batch, 1, frame.stage)
             IN  ~quiet.sample /\ ret.loss = quiet.loss /\ ret.log = quiet.log

C4_Witness ==
    /\ frame.hook = "validation_step" /\ pc = "returned"
    /\ Idx("sample_images") # {}
    /\ Cardinality(sampled) = 2
    /\ ret.loss.val > 0

\* C5: for every stage, step returns (loss, log) where log has exactly the
\* keys '<stage>_loss' and '<stage>_recon_loss', both log values carry the
\* reconstruction-loss value, and the returned loss is that same value.
C5_StepReturn ==
    (InStep /\ Completed) =>
        /\ ret.kind \in {"pair", "loss", "logs"}
        /\ DOMAIN ret.log = {frame.stage \o "_loss", frame.stage \o "_recon_loss"}
        /\ ret.log[frame.stage \o "_loss"].val = ret.loss.val
        /\ ret.log[frame.stage \o "_recon_loss"].val = ret.loss.val
        /\ ret.loss.val = compute_recontruct_loss(frame.batch.x, results).val

C5_Witness ==
    /\ frame.hook = "step" /\ pc = "returned"
    /\ frame.stage = "test"
    /\ ret.kind = "pair"
    /\ ret.loss.val > 0
====
